---- MODULE Spec2Model ----
(***************************************************************************)
(* One invocation of the code-fixing CLI, in its two variants main.py and  *)
(* main2.py: availability probe, argument validation, file read, chat      *)
(* completion, code extraction, segment merge, diff, confirmation, backup  *)
(* rename and write.  Text is a sequence of one-character strings; the     *)
(* triple-backtick fence is the single token FENCE.  An optional Python    *)
(* value is a sequence of length at most one: <<>> is None, <<v>> is v.    *)
(***************************************************************************)
EXTENDS Integers, Sequences, FiniteSets, TLC

\* ---------------------------------------------------------------- bounds
MaxFileLen == 2
MaxFixLen == 1
MaxChoiceLen == 2
MaxLineNo == 2

\* ------------------------------------------------------------- alphabets
NL == "\n"
FENCE == "<fence>"
FileChars == {"a", NL}
ChoiceChars == {"y", "Y", "n", " "}
Whitespace == {" ", NL}
WordChars == {"a", "y", "Y", "n"}
Variants == {"main", "main2"}
Filenames == {<<"a.py">>, <<"dir", "a.py">>}
TIMESTAMP == "20261104120000"

TextsOver(alphabet, n) == UNION {[1..k -> alphabet] : k \in 0..n}

None == <<>>
Some(v) == <<v>>

\* ------------------------------------------------------ string functions
RECURSIVE Join(_)
Join(ls) == IF ls = <<>> THEN <<>> ELSE Head(ls) \o Join(Tail(ls))

FirstNL(s) == IF \E i \in 1..Len(s) : s[i] = NL
              THEN CHOOSE i \in 1..Len(s) : s[i] = NL /\ \A j \in 1..(i-1) : s[j] # NL
              ELSE 0

RECURSIVE SplitlinesKeepends(_)
SplitlinesKeepends(s) ==
  IF s = <<>> THEN <<>>
  ELSE LET i == FirstNL(s) IN
       IF i = 0 THEN <<s>>
       ELSE <<SubSeq(s, 1, i)>> \o SplitlinesKeepends(SubSeq(s, i + 1, Len(s)))

RECURSIVE Splitlines(_)
Splitlines(s) ==
  IF s = <<>> THEN <<>>
  ELSE LET i == FirstNL(s) IN
       IF i = 0 THEN <<s>>
       ELSE <<SubSeq(s, 1, i - 1)>> \o Splitlines(SubSeq(s, i + 1, Len(s)))

Readlines(s) == SplitlinesKeepends(s)

RECURSIVE LStrip(_)
LStrip(s) == IF s # <<>> /\ Head(s) \in Whitespace THEN LStrip(Tail(s)) ELSE s

RECURSIVE RStrip(_)
RStrip(s) == IF s # <<>> /\ s[Len(s)] \in Whitespace
             THEN RStrip(SubSeq(s, 1, Len(s) - 1)) ELSE s

Strip(s) == RStrip(LStrip(s))

LowerChar(c) == IF c = "Y" THEN "y" ELSE c
Lower(s) == [i \in 1..Len(s) |-> LowerChar(s[i])]

\* re.search of fence, optional language tag, newline, lazy body, fence: a match
\* at i is a fence, word characters, a newline at j, then the first later fence.
FenceMatch(s, i, j) ==
  /\ s[i] = FENCE
  /\ s[j] = NL
  /\ \A m \in (i+1)..(j-1) : s[m] \in WordChars
  /\ \E k \in (j+1)..Len(s) : s[k] = FENCE

extract_code(response_text) ==
  LET s == response_text
      starts == {i \in 1..Len(s) : \E j \in (i+1)..Len(s) : FenceMatch(s, i, j)}
  IN IF starts = {} THEN Strip(s)
     ELSE LET i == CHOOSE x \in starts : \A y \in starts : x <= y
              j == CHOOSE x \in (i+1)..Len(s) : FenceMatch(s, i, x)
              k == CHOOSE x \in (j+1)..Len(s) :
                     s[x] = FENCE /\ \A y \in (j+1)..(x-1) : s[y] # FENCE
          IN SubSeq(s, j + 1, k - 1)

Min(a, b) == IF a < b THEN a ELSE b
Max(a, b) == IF a > b THEN a ELSE b

\* lines[lo:hi] = new, for lo >= 0 (Python clamps both ends to len(lines))
SliceAssign(ls, lo, hi, new) ==
  LET l == Min(lo, Len(ls))
      h == Max(Min(hi, Len(ls)), l)
  IN SubSeq(ls, 1, l) \o new \o SubSeq(ls, h + 1, Len(ls))

MergeSegment(ls, start_line, end_line, fixed_segment) ==
  Join(SliceAssign(ls, start_line - 1, end_line, SplitlinesKeepends(fixed_segment)))

\* difflib.unified_diff yields nothing exactly when the two line lists agree
UnifiedDiffIsEmpty(original_code, fixed_code) ==
  Splitlines(original_code) = Splitlines(fixed_code)

Falsy(opt) == opt = None \/ opt[1] = <<>>

DeclinedOnlyOnN(choice) == Lower(Strip(choice)) = <<"n">>

Declined(choice) == Lower(Strip(choice)) # <<"y">>

\* the second component returned when send_request gave None
FixedOnFailureEcho(full_code) == Some(full_code)

FixedOnFailure(full_code) == None

\* ------------------------------------------------------------ filesystem
Basename(path) == path[Len(path)]
Dirname(path) == SubSeq(path, 1, Len(path) - 1)
BakName(path) == Basename(path) \o "." \o TIMESTAMP \o ".bak"

BackupName(v, path) ==
  IF v = "main" THEN <<"_backup">> \o Dirname(path) \o <<BakName(path)>>
  ELSE <<"_backup", BakName(path)>>

RemoveSource(f, src, dst) == [p \in DOMAIN f \ {src} |-> f[p]]

RenameFs(f, src, dst) ==
  [p \in (DOMAIN f \ {src}) \cup {dst} |-> IF p = dst THEN f[src] ELSE f[p]]

WriteFs(f, path, data) ==
  [p \in DOMAIN f \cup {path} |-> IF p = path THEN data ELSE f[p]]

ProperPrefixes(s) == {SubSeq(s, 1, k) : k \in 0..(Len(s) - 1)}

\* ------------------------------------------------------------ inputs
Files == TextsOver(FileChars, MaxFileLen)
FixBodies == TextsOver(FileChars, MaxFixLen)
Responses ==
  FixBodies
    \cup {<<FENCE, NL>> \o b \o <<FENCE>> : b \in FixBodies}
    \cup {<<FENCE, "a", NL>> \o b \o <<FENCE>> : b \in FixBodies}
Choices == TextsOver(ChoiceChars, MaxChoiceLen)
OptLineNos == {None} \cup {Some(n) : n \in 0..MaxLineNo}
InitDirs == {{}, {<<"_backup">>}, {<<"_backup">>, <<"_backup", "dir">>}}

VARIABLES variant, args, pc, outcome, fs, dirs, fs0, dirs0, network_calls,
          response, raw_output, original_code, fixed_code, diff_shown,
          prompted, choice

vars == <<variant, args, pc, outcome, fs, dirs, fs0, dirs0, network_calls,
          response, raw_output, original_code, fixed_code, diff_shown,
          prompted, choice>>

HasRange == args.start # None /\ args.end # None
start_line == args.start[1]
end_line == args.end[1]
Target == args.filename

\* ------------------------------------------------------------ one run
Finish(o) == pc' = "done" /\ outcome' = o

Fault(handled) == Finish(IF variant = "main" THEN "uncaught" ELSE handled)

Init ==
  /\ variant \in Variants
  /\ args \in [filename : Filenames, start : OptLineNos, end : OptLineNos]
  /\ pc = IF variant = "main" THEN "probe" ELSE "pair"
  /\ outcome = "running"
  /\ fs \in {[p \in {} |-> <<>>]} \cup {[p \in {args.filename} |-> f] : f \in Files}
  /\ dirs \in InitDirs
  /\ fs0 = fs
  /\ dirs0 = dirs
  /\ network_calls = {}
  /\ response = "none"
  /\ raw_output = None
  /\ original_code = None
  /\ fixed_code = None
  /\ diff_shown = FALSE
  /\ prompted = FALSE
  /\ choice = None

check_server_available ==
  /\ pc = "probe"
  /\ network_calls' = network_calls \cup {"probe"}
  /\ \E ok \in BOOLEAN :
       IF ok THEN /\ pc' = IF variant = "main" THEN "pair" ELSE "range"
                  /\ outcome' = outcome
             ELSE Finish("server_unavailable")
  /\ UNCHANGED <<variant, args, fs, dirs, fs0, dirs0, response, raw_output,
                 original_code, fixed_code, diff_shown, prompted, choice>>

CheckPair ==
  /\ pc = "pair"
  /\ IF (args.start = None) # (args.end = None)
     THEN Finish("invalid_args")
     ELSE /\ pc' = IF variant = "main" THEN "range" ELSE "probe"
          /\ outcome' = outcome
  /\ UNCHANGED <<variant, args, fs, dirs, fs0, dirs0, network_calls, response,
                 raw_output, original_code, fixed_code, diff_shown, prompted,
                 choice>>

CheckRange ==
  /\ pc = "range"
  /\ IF HasRange /\ (start_line > end_line \/ start_line < 1)
     THEN Finish("invalid_args")
     ELSE pc' = "read" /\ outcome' = outcome
  /\ UNCHANGED <<variant, args, fs, dirs, fs0, dirs0, network_calls, response,
                 raw_output, original_code, fixed_code, diff_shown, prompted,
                 choice>>

ReadFile ==
  /\ pc = "read"
  /\ \E ok \in BOOLEAN :
       IF ok /\ Target \in DOMAIN fs
       THEN /\ original_code' = Some(fs[Target])
            /\ pc' = "build"
            /\ outcome' = outcome
       ELSE /\ Fault("read_failure")
            /\ original_code' = original_code
  /\ UNCHANGED <<variant, args, fs, dirs, fs0, dirs0, network_calls, response,
                 raw_output, fixed_code, diff_shown, prompted, choice>>

lines == Readlines(original_code[1])

RangeRejected ==
  /\ variant = "main2"
  /\ HasRange
  /\ (start_line < 1 \/ end_line > Len(lines) \/ start_line > end_line)

BuildMessages ==
  /\ pc = "build"
  /\ pc' = IF RangeRejected THEN "validate" ELSE "send"
  /\ UNCHANGED <<variant, args, outcome, fs, dirs, fs0, dirs0, network_calls,
                 response, raw_output, original_code, fixed_code, diff_shown,
                 prompted, choice>>

send_request ==
  /\ pc = "send"
  /\ network_calls' = network_calls \cup {"completion"}
  /\ \/ response' = "failed" /\ raw_output' = None
     \/ response' = "null_content" /\ raw_output' = None
     \/ \E r \in Responses : response' = "ok" /\ raw_output' = Some(r)
  /\ pc' = "merge"
  /\ UNCHANGED <<variant, args, outcome, fs, dirs, fs0, dirs0, original_code,
                 fixed_code, diff_shown, prompted, choice>>

Candidate ==
  IF HasRange
  THEN MergeSegment(lines, start_line, end_line, extract_code(raw_output[1]))
  ELSE extract_code(raw_output[1])

ExtractAndMerge ==
  /\ pc = "merge"
  /\ CASE response = "failed" ->
            fixed_code' = FixedOnFailure(original_code[1]) /\ pc' = "validate" /\ outcome' = outcome
       [] response = "null_content" ->
            fixed_code' = None /\ Finish("uncaught")
       [] OTHER ->
            fixed_code' = Some(Candidate) /\ pc' = "validate" /\ outcome' = outcome
  /\ UNCHANGED <<variant, args, fs, dirs, fs0, dirs0, network_calls, response,
                 raw_output, original_code, diff_shown, prompted, choice>>

StopsOnEmptyDiff(v) == v = "main2"

validate_and_save ==
  /\ pc = "validate"
  /\ IF Falsy(fixed_code)
     THEN Finish("no_fix") /\ UNCHANGED <<diff_shown, prompted>>
     ELSE LET empty == UnifiedDiffIsEmpty(original_code[1], fixed_code[1]) IN
          IF empty /\ StopsOnEmptyDiff(variant)
          THEN Finish("no_changes") /\ UNCHANGED <<diff_shown, prompted>>
          ELSE /\ diff_shown' = ~empty
               /\ prompted' = TRUE
               /\ pc' = "input"
               /\ outcome' = outcome
  /\ UNCHANGED <<variant, args, fs, dirs, fs0, dirs0, network_calls, response,
                 raw_output, original_code, fixed_code, choice>>

ReadChoice ==
  /\ pc = "input"
  /\ \/ \E c \in Choices :
          /\ choice' = Some(c)
          /\ IF Declined(c) THEN Finish("cancelled")
             ELSE pc' = "mkdir" /\ outcome' = outcome
     \/ choice' = choice /\ Finish("uncaught")
  /\ UNCHANGED <<variant, args, fs, dirs, fs0, dirs0, network_calls, response,
                 raw_output, original_code, fixed_code, diff_shown, prompted>>

MakeBackupDir ==
  /\ pc = "mkdir"
  /\ \/ dirs' = dirs \cup {<<"_backup">>} /\ pc' = "rename" /\ outcome' = outcome
     \/ <<"_backup">> \notin dirs /\ dirs' = dirs /\ Finish("uncaught")
  /\ UNCHANGED <<variant, args, fs, fs0, dirs0, network_calls, response,
                 raw_output, original_code, fixed_code, diff_shown, prompted,
                 choice>>

backup_name == BackupName(variant, Target)

RenameOriginal ==
  /\ pc = "rename"
  /\ \E ok \in BOOLEAN :
       IF ok /\ Dirname(backup_name) \in dirs
       THEN /\ fs' = RenameFs(fs, Target, backup_name)
            /\ pc' = "write"
            /\ outcome' = outcome
       ELSE fs' = fs /\ Fault("persist_failure")
  /\ UNCHANGED <<variant, args, dirs, fs0, dirs0, network_calls, response,
                 raw_output, original_code, fixed_code, diff_shown, prompted,
                 choice>>

WriteFixed ==
  /\ pc = "write"
  /\ \/ fs' = WriteFs(fs, Target, fixed_code[1]) /\ Finish("success")
     \/ /\ \/ fs' = fs
           \/ \E part \in ProperPrefixes(fixed_code[1]) : fs' = WriteFs(fs, Target, part)
        /\ Fault("persist_failure")
  /\ UNCHANGED <<variant, args, dirs, fs0, dirs0, network_calls, response,
                 raw_output, original_code, fixed_code, diff_shown, prompted,
                 choice>>

Next ==
  \/ check_server_available
  \/ CheckPair
  \/ CheckRange
  \/ ReadFile
  \/ BuildMessages
  \/ send_request
  \/ ExtractAndMerge
  \/ validate_and_save
  \/ ReadChoice
  \/ MakeBackupDir
  \/ RenameOriginal
  \/ WriteFixed

Spec == Init /\ [][Next]_vars

\* ------------------------------------------------------------ properties
Holds(path, data) == path \in DOMAIN fs /\ fs[path] = data
Untouched == fs = fs0 /\ dirs = dirs0
ValidRange == HasRange /\ 1 <= start_line /\ start_line <= end_line /\ end_line <= Len(lines)

\* C1: after a range-fix merge with 1 <= start <= end <= n, the candidate split
\* back into lines starts with original lines 1..start-1 and ends with original
\* lines end+1..n, for every extracted fix text.
MergeKeepsOutsideLines ==
  (response = "ok" /\ fixed_code # None /\ ValidRange) =>
    LET out == SplitlinesKeepends(fixed_code[1])
        n == Len(lines)
        tail == n - end_line
    IN /\ Len(out) >= (start_line - 1) + tail
       /\ SubSeq(out, 1, start_line - 1) = SubSeq(lines, 1, start_line - 1)
       /\ SubSeq(out, Len(out) - tail + 1, Len(out)) = SubSeq(lines, end_line + 1, n)

\* C2: at the success message the backup _backup/<basename>.<timestamp>.bak
\* holds the original bytes and the target holds the candidate text, for every
\* target filename.
ConfirmedApplyAtBasename ==
  outcome = "success" =>
    /\ Holds(<<"_backup", BakName(Target)>>, fs0[Target])
    /\ Holds(Target, fixed_code[1])

\* C3: once the completion call has failed, in whole-file and in range mode,
\* no file or directory changes, no prompt is shown, and the run ends without
\* reaching the confirmation or persist steps.
CompletionFailureTouchesNothing ==
  response = "failed" =>
    /\ Untouched
    /\ ~prompted
    /\ pc \in {"merge", "validate", "done"}
    /\ (pc = "done" => outcome = "no_fix")

CompletionFailureWitness ==
  response = "failed" /\ pc = "done" /\ HasRange /\ Target \in DOMAIN fs

\* C4 as stated: files and directories change only when the response,
\* compared case-insensitively, is exactly "y".
GateOnExactY ==
  ~Untouched => (choice # None /\ Lower(choice[1]) = <<"y">>)

\* C4 amended: files and directories change only when the response, with
\* leading and trailing whitespace removed and compared case-insensitively,
\* is "y"; any other response cancels with nothing changed.
GateOnStrippedY ==
  LET yes(s) == /\ Cardinality({i \in 1..Len(s) : s[i] \notin Whitespace}) = 1
                /\ \E i \in 1..Len(s) : s[i] \in {"y", "Y"}
  IN /\ ~Untouched => (choice # None /\ yes(choice[1]))
     /\ (choice # None /\ ~yes(choice[1])) =>
          (pc = "done" /\ outcome = "cancelled" /\ Untouched)

GateWitness ==
  /\ choice = Some(<<" ", "Y">>)
  /\ outcome = "success"
  /\ ~Untouched

\* C5: when the diff between the original and a non-empty candidate is empty,
\* the run stops with no prompt, no backup and no write.
EmptyDiffStops ==
  (/\ fixed_code # None
   /\ fixed_code[1] # <<>>
   /\ UnifiedDiffIsEmpty(original_code[1], fixed_code[1])
   /\ pc \notin {"merge", "validate"}) =>
    (~prompted /\ Untouched /\ pc = "done")

\* C6: a run aborted for a malformed range has issued no network call,
\* neither the probe nor the completion request.
InvalidArgsNoNetwork ==
  outcome = "invalid_args" => network_calls = {}

\* C7: a run whose completion succeeded with empty content ends reporting
\* that no fix was suggested, with no diff, no prompt and no file change.
EmptyContentReportsNoFix ==
  (response = "ok" /\ raw_output = Some(<<>>) /\ pc \notin {"merge", "validate"}) =>
    (pc = "done" /\ outcome = "no_fix" /\ ~diff_shown /\ ~prompted /\ Untouched)

\* C8: no run ends by an exception escaping main.
NoUncaughtFault ==
  outcome # "uncaught"

\* C9: whenever a completion request has been sent in range mode, and whenever
\* the merge has been performed, 1 <= start <= end <= line count.
RangeWithinFile ==
  (HasRange /\ "completion" \in network_calls) => ValidRange

\* C10: the original bytes are always on disk at the target path or at the
\* backup path, also after a failed rename or write, and the target differs
\* from the original only once the backup path holds the original.
OriginalNeverLost ==
  Target \in DOMAIN fs0 =>
    LET orig == fs0[Target] IN
      /\ Holds(Target, orig) \/ Holds(backup_name, orig)
      /\ fs # fs0 => Holds(backup_name, orig)

OriginalNeverLostWitness ==
  /\ pc = "done"
  /\ outcome \in {"persist_failure", "uncaught"}
  /\ Target \in DOMAIN fs0
  /\ Target \notin DOMAIN fs
  /\ Holds(backup_name, fs0[Target])

====
